---- MODULE Spec2Model ----
(***************************************************************************)
(* A model of src/hash_table.py: the Contact / Node / HashTable classes.   *)
(* Python objects live on two heaps (nodes, contacts) addressed by the     *)
(* order of their allocation; a reference is an index, None is 0.          *)
(* Python values that can be passed as a name or a number are modelled     *)
(* with their type, so that str(x) and x == y are computed as Python       *)
(* computes them.                                                          *)
(***************************************************************************)
EXTENDS Integers, Sequences, FiniteSets, TLC

\* ------------------------------------------------------------------ bounds
\* The tables explored hold at most MaxEntries nodes.
MaxEntries == 3

\* The smallest size handed to the constructor is -MaxNeg.
MaxNeg == 1

\* ------------------------------------------------------- program constants
\* size passed by the demonstration: HashTable(10)
DemoSize == 10

\* The None reference.
None == 0

\* --------------------------------------------------------- Python values
\* A str and an int.
StrV(s) == [ty |-> "str", s |-> s, n |-> 0]

IntV(n) == [ty |-> "int", s |-> "", n |-> n]

\* No argument passed / no value.
NoVal == [ty |-> "none", s |-> "", n |-> 0]

\* str(v) as Python computes it: the text of a str is itself, of an int its
\* decimal digits.
PyStr(v) ==
    CASE v.ty = "str" -> v.s
      [] v.ty = "int" -> ToString(v.n)
      [] OTHER -> "None"

\* a == b as Python computes it: two str are equal when their text is, two
\* int when their value is, a str never equals an int.
PyEq(a, b) ==
    IF a.ty = "str" /\ b.ty = "str" THEN a.s = b.s
    ELSE IF a.ty = "int" /\ b.ty = "int" THEN a.n = b.n
    ELSE FALSE

\* The characters of the strings that are hashed (iteration `for c in s`).
Chars(s) ==
    CASE s = "Amy" -> <<"A", "m", "y">>
      [] s = "May" -> <<"M", "a", "y">>
      [] s = "1"   -> <<"1">>
      [] s = ""    -> <<>>

\* ord(c): the code point of a character.
ord(c) ==
    CASE c = "A" -> 65
      [] c = "M" -> 77
      [] c = "a" -> 97
      [] c = "m" -> 109
      [] c = "y" -> 121
      [] c = "1" -> 49

RECURSIVE sum_ord(_)
\* sum(ord(c) for c in cs)
sum_ord(cs) == IF cs = <<>> THEN 0 ELSE ord(Head(cs)) + sum_ord(Tail(cs))

\* ------------------------------------------------------------- inputs
\* Names passed to insert and search: two colliding strings, an int and its
\* string form.
Names == {StrV("Amy"), StrV("May"), StrV("1"), IntV(1)}

\* Numbers passed to insert: two strings and an int.
Numbers == {StrV("111-222-3333"), StrV("999-444-9999"), IntV(5)}

\* Sizes passed to the constructor: the illegal ones, the smallest legal one
\* (every name in one bucket) and the demonstration's.
Sizes == ((0 - MaxNeg) .. 1) \cup {DemoSize}

\* -------------------------------------------------------------- classes
\* Contact.__init__
Contact(name, number) == [name |-> StrV(PyStr(name)), number |-> StrV(PyStr(number))]

\* Contact.__str__
Contact_str(c) == PyStr(c.name) \o ": " \o PyStr(c.number)

\* Node.__init__
Node(key, value) == [key |-> key, value |-> value, next |-> None]

\* hash_function with the reduction modulo the table size left out.
hash_function_nomod(size, key) == sum_ord(Chars(PyStr(key)))

\* HashTable.hash_function
hash_function(size, key) == sum_ord(Chars(PyStr(key))) % size

\* The table as a value: its attributes and the two heaps.
Table(sz, dt, ns, cs) == [size |-> sz, data |-> dt, nodes |-> ns, contacts |-> cs]

RECURSIVE find(_, _, _)
\* The chain walk shared by insert and search: the first node from curr
\* whose key == name, or None.
find(ns, curr, name) ==
    IF curr = None THEN None
    ELSE IF PyEq(ns[curr].key, name) THEN curr
    ELSE find(ns, ns[curr].next, name)

\* The update branch replacing the Contact by a new object instead of
\* assigning to the number of the existing one.
update_existing_replace(T, curr, number) ==
    LET cid == Len(T.contacts) + 1
    IN  [T EXCEPT !.contacts = Append(T.contacts, Contact(T.nodes[curr].key, number)),
                  !.nodes[curr].value = cid]

\* insert, the branch "update if exists": curr.value.number = number
update_existing(T, curr, number) ==
    [T EXCEPT !.contacts[T.nodes[curr].value].number = number]

\* The prepend branch with `new_node.next = head` left out.
prepend_new_unlinked(T, idx, head, name, number) ==
    LET cid == Len(T.contacts) + 1
        nid == Len(T.nodes) + 1
    IN  [T EXCEPT !.contacts = Append(T.contacts, Contact(name, number)),
                  !.nodes = Append(T.nodes, Node(name, cid)),
                  !.data[idx + 1] = nid]

\* insert, the branch "not found: create and prepend new node"
prepend_new(T, idx, head, name, number) ==
    LET cid == Len(T.contacts) + 1
        nid == Len(T.nodes) + 1
        new_node == [Node(name, cid) EXCEPT !.next = head]
    IN  [T EXCEPT !.contacts = Append(T.contacts, Contact(name, number)),
                  !.nodes = Append(T.nodes, new_node),
                  !.data[idx + 1] = nid]

\* HashTable.insert
insert(T, name, number) ==
    LET idx == hash_function(T.size, name)
        head == T.data[idx + 1]
        curr == find(T.nodes, head, name)
    IN  IF curr # None THEN update_existing(T, curr, number)
        ELSE prepend_new(T, idx, head, name, number)

\* HashTable.search: a reference to the Contact, or None
search(T, name) ==
    LET idx == hash_function(T.size, name)
        curr == find(T.nodes, T.data[idx + 1], name)
    IN  IF curr # None THEN T.nodes[curr].value ELSE None

RECURSIVE chain_parts_reversed(_, _)
\* The inner loop of print_table putting each part in front of the earlier
\* ones (parts.insert(0, ...)).
chain_parts_reversed(T, curr) ==
    IF curr = None THEN <<>>
    ELSE chain_parts_reversed(T, T.nodes[curr].next)
            \o <<"- " \o Contact_str(T.contacts[T.nodes[curr].value])>>

RECURSIVE chain_parts(_, _)
\* print_table's inner loop: parts.append(f"- {curr.value}") from curr on
chain_parts(T, curr) ==
    IF curr = None THEN <<>>
    ELSE <<"- " \o Contact_str(T.contacts[T.nodes[curr].value])>>
            \o chain_parts(T, T.nodes[curr].next)

RECURSIVE join(_)
\* ' '.join(parts)
join(parts) ==
    IF parts = <<>> THEN ""
    ELSE IF Len(parts) = 1 THEN parts[1]
    ELSE parts[1] \o " " \o join(Tail(parts))

\* print_table's line for bucket i
print_line(T, i) ==
    IF T.data[i + 1] = None THEN "Index " \o ToString(i) \o ": Empty"
    ELSE "Index " \o ToString(i) \o ": " \o join(chain_parts(T, T.data[i + 1]))

\* HashTable.print_table: the lines printed, in order
print_table(T) == [k \in 1 .. T.size |-> print_line(T, k - 1)]

\* ---------------------------------------------------------------- state
VARIABLES
    phase,      \* "new": no HashTable(...) call yet; "ok": constructed; "failed": __init__ raised
    exc,        \* the exception raised by the last call, or "none"
    size_arg,   \* the size passed to the constructor (0 before the call)
    size,       \* self.size (0 while the attribute is not set)
    data,       \* self.data: bucket i is data[i + 1], a node reference or None
    nodes,      \* heap of Node objects
    contacts,   \* heap of Contact objects
    op,         \* the name of the last call made
    ret,        \* what the last call returned: a Contact reference, or None
    out,        \* the lines the last call printed
    inserted    \* per string form of a name, the number of the latest insert under it

vars == <<phase, exc, size_arg, size, data, nodes, contacts, op, ret, out, inserted>>

\* The table the variables hold.
self == Table(size, data, nodes, contacts)

\* The string forms of the names.
Keys == {PyStr(k) : k \in Names}

Init ==
    /\ phase = "new"
    /\ exc = "none"
    /\ size_arg = 0
    /\ size = 0
    /\ data = <<>>
    /\ nodes = <<>>
    /\ contacts = <<>>
    /\ op = "none"
    /\ ret = None
    /\ out = <<>>
    /\ inserted = [s \in Keys |-> NoVal]

\* __init__ testing `size < 0` instead of `size <= 0`.
Construct_lt(sz) ==
    /\ phase = "new"
    /\ op' = "__init__"
    /\ size_arg' = sz
    /\ IF sz < 0
       THEN /\ phase' = "failed"
            /\ exc' = "ValueError"
            /\ UNCHANGED <<size, data>>
       ELSE /\ phase' = "ok"
            /\ size' = sz
            /\ data' = [i \in 1 .. sz |-> None]
            /\ UNCHANGED exc
    /\ UNCHANGED <<nodes, contacts, ret, out, inserted>>

\* HashTable(size): __init__ raises ValueError when size <= 0 and sets no
\* attribute, and otherwise sets size and data = [None] * size.
Construct(sz) ==
    /\ phase = "new"
    /\ op' = "__init__"
    /\ size_arg' = sz
    /\ IF sz <= 0
       THEN /\ phase' = "failed"
            /\ exc' = "ValueError"
            /\ UNCHANGED <<size, data>>
       ELSE /\ phase' = "ok"
            /\ size' = sz
            /\ data' = [i \in 1 .. sz |-> None]
            /\ UNCHANGED exc
    /\ UNCHANGED <<nodes, contacts, ret, out, inserted>>

\* table.insert(name, number)
Insert(name, number) ==
    /\ phase = "ok"
    /\ \E T \in {insert(self, name, number)} :
           /\ Len(T.nodes) <= MaxEntries
           /\ data' = T.data
           /\ nodes' = T.nodes
           /\ contacts' = T.contacts
    /\ op' = "insert"
    /\ ret' = None
    /\ out' = <<>>
    /\ inserted' = [inserted EXCEPT ![PyStr(name)] = number]
    /\ UNCHANGED <<phase, exc, size_arg, size>>

\* table.search(name)
Search(name) ==
    /\ phase = "ok"
    /\ op' = "search"
    /\ ret' = search(self, name)
    /\ out' = <<>>
    /\ UNCHANGED <<phase, exc, size_arg, size, data, nodes, contacts, inserted>>

\* table.print_table()
PrintTable ==
    /\ phase = "ok"
    /\ op' = "print_table"
    /\ ret' = None
    /\ out' = print_table(self)
    /\ UNCHANGED <<phase, exc, size_arg, size, data, nodes, contacts, inserted>>

Next ==
    \/ \E sz \in Sizes : Construct(sz)
    \/ \E name \in Names, number \in Numbers : Insert(name, number)
    \/ \E name \in Names : Search(name)
    \/ PrintTable

Spec == Init /\ [][Next]_vars

\* ------------------------------------------------------- derived notions
RECURSIVE Chain(_, _)
\* The nodes reachable from curr through next, in order (head first).
Chain(ns, curr) == IF curr = None THEN <<>> ELSE <<curr>> \o Chain(ns, ns[curr].next)

\* The chain of bucket i of table T.
Bucket(T, i) == Chain(T.nodes, T.data[i + 1])

\* The node references of table T.
NodeIds(T) == 1 .. Len(T.nodes)

\* Some entry of T has a key equal (==) to name.
Present(T, name) == \E n \in NodeIds(T) : PyEq(T.nodes[n].key, name)

\* The entry of T and its Contact, as values: key, name and number.
Entry(T, n) ==
    [key |-> T.nodes[n].key,
     name |-> T.contacts[T.nodes[n].value].name,
     number |-> T.contacts[T.nodes[n].value].number]

\* The entries of bucket i of T, head first.
Entries(T, i) == [j \in 1 .. Len(Bucket(T, i)) |-> Entry(T, Bucket(T, i)[j])]

\* ---------------------------------------------------------------- claims

\* C1: the table is a map from name to number. For every name k, search(k)
\* returns a Contact whose name is (the string form of) k and whose number
\* is the number of the latest insert under that name, and returns None
\* when nothing was inserted under that name.
C1_MapFromNameToNumber ==
    phase = "ok" =>
        \A k \in Names :
            LET r == search(self, k)
                latest == inserted[PyStr(k)]
            IN  IF latest = NoVal THEN r = None
                ELSE /\ r # None
                     /\ PyStr(contacts[r].name) = PyStr(k)
                     /\ PyStr(contacts[r].number) = PyStr(latest)

\* C2: key uniqueness. No two entries of the table have the same key, the
\* key of an entry being a string (the name): inserting a name that is
\* present adds no second node.
C2_KeyUnique ==
    \A m, n \in NodeIds(self) :
        PyStr(nodes[m].key) = PyStr(nodes[n].key) => m = n

\* C3: a name x and the string str(x) are the same key. After insert(x, n),
\* search(str(x)) returns the contact with number n; and insert(x, n1)
\* followed by insert(str(x), n2) leaves one entry for that name, holding n2.
C3_NameCoerced ==
    phase = "ok" =>
        \A x \in Names, n1, n2 \in Numbers :
            LET sx == StrV(PyStr(x))
                T1 == insert(self, x, n1)
                r  == search(T1, sx)
                T2 == insert(T1, sx, n2)
                same == {m \in NodeIds(T2) : Entry(T2, m).name = sx}
            IN  /\ r # None
                /\ PyStr(T1.contacts[r].number) = PyStr(n1)
                /\ Cardinality(same) = 1
                /\ \A m \in same : PyStr(Entry(T2, m).number) = PyStr(n2)

\* C5: insert is idempotent. In every state, insert(name, number) twice in a
\* row leaves the table (buckets, chains, every contact's name and number)
\* and its dump as insert(name, number) once leaves them.
C5_InsertIdempotent ==
    phase = "ok" =>
        \A name \in Names, number \in Numbers :
            LET once == insert(self, name, number)
                twice == insert(once, name, number)
            IN  /\ twice = once
                /\ print_table(twice) = print_table(once)

\* C9: every stored Contact's number is a string, whether insert created
\* the contact or overwrote its number.
C9_NumberIsString == \A c \in 1 .. Len(contacts) : contacts[c].number.ty = "str"

\* C4: head insertion. When insert adds a name that no entry has, the new
\* entry (key name, Contact of name and number) becomes the head of bucket
\* hash(name), followed by the nodes that were in the chain, in their
\* order, and no other bucket changes; so two distinct colliding absent
\* names inserted a then b are in one chain with b first and a second.
C4_HeadInsertion ==
    phase = "ok" =>
        \A a \in Names, number \in Numbers :
            ~Present(self, a) =>
                \A idx \in {hash_function(size, a)}, T1 \in {insert(self, a, number)} :
                    /\ Bucket(T1, idx) # <<>>
                    /\ Tail(Bucket(T1, idx)) = Bucket(self, idx)
                    /\ Entries(T1, idx) =
                          <<[key |-> a, name |-> StrV(PyStr(a)),
                             number |-> StrV(PyStr(number))]>> \o Entries(self, idx)
                    /\ \A j \in 0 .. size - 1 : j # idx => Bucket(T1, j) = Bucket(self, j)
                    /\ \A b \in Names :
                          (~PyEq(a, b) /\ ~Present(self, b)
                                /\ hash_function(size, b) = idx) =>
                              \A T2 \in {insert(T1, b, number)} :
                                  /\ Len(Bucket(T2, idx)) = Len(Bucket(self, idx)) + 2
                                  /\ Entries(T2, idx)[1].key = b
                                  /\ Entries(T2, idx)[2].key = a

\* Witness of C4: with capacity 10, "Amy" then "May" were inserted and
\* bucket 5 (295 % 10) holds May before Amy.
C4_Witness ==
    /\ size = 10
    /\ op = "insert"
    /\ Len(Bucket(self, 5)) = 2
    /\ Entries(self, 5)[1].key = StrV("May")
    /\ Entries(self, 5)[2].key = StrV("Amy")

\* The sum of the character codes of the string form of each name.
CodeSum(k) == IF PyStr(k) = "1" THEN 49 ELSE 295

\* C6: bucket placement. hash(key) is the sum of the character codes of
\* str(key) modulo the size and lies in [0, size); every entry of bucket i
\* has hash(key) = i; every node is in the chain of exactly one bucket; and
\* search finds every entry under its key.
C6_BucketPlacement ==
    phase = "ok" =>
        /\ \A k \in Names :
              /\ hash_function(size, k) = CodeSum(k) % size
              /\ hash_function(size, k) \in 0 .. size - 1
        /\ \A chains \in {[i \in 0 .. size - 1 |-> Bucket(self, i)]} :
              /\ \A i \in 0 .. size - 1 :
                    \A j \in 1 .. Len(chains[i]) :
                        hash_function(size, nodes[chains[i][j]].key) = i
              /\ \A n \in NodeIds(self) :
                    Cardinality({i \in 0 .. size - 1 :
                        \E j \in 1 .. Len(chains[i]) : chains[i][j] = n}) = 1
        /\ \A n \in NodeIds(self) : search(self, nodes[n].key) = nodes[n].value

\* Witness of C6: a table of 10 buckets with entries in two buckets, one of
\* them a chain of two.
C6_Witness ==
    /\ size = 10
    /\ Len(Bucket(self, 5)) = 2
    /\ Len(Bucket(self, 9)) = 1

\* C7: construction with a size <= 0 raises ValueError and produces no table
\* (no attribute is set), and construction with a size > 0 never fails.
C7_ConstructRejectsNonPositive ==
    op # "none" =>
        /\ size_arg <= 0 =>
              /\ phase = "failed"
              /\ exc = "ValueError"
              /\ size = 0 /\ data = <<>> /\ nodes = <<>> /\ contacts = <<>>
        /\ size_arg > 0 =>
              /\ phase = "ok"
              /\ exc = "none"
              /\ size = size_arg
              /\ Len(data) = size_arg

\* Witness of C7: HashTable(0) was called and raised.
C7_Witness == op = "__init__" /\ size_arg = 0 /\ exc = "ValueError"

RECURSIVE Listing(_)
\* Each entry, in order, as " - <name>: <number>".
Listing(es) ==
    IF es = <<>> THEN ""
    ELSE " - " \o PyStr(es[1].name) \o ": " \o PyStr(es[1].number) \o Listing(Tail(es))

\* The line of an empty bucket i.
EmptyLine(i) == "Index " \o ToString(i) \o ": Empty"

\* What C8 says of the lines printed.
DumpLines ==
    op = "print_table" =>
        /\ Len(out) = size
        /\ \A i \in 0 .. size - 1 :
              /\ (out[i + 1] = EmptyLine(i)) <=> (data[i + 1] = None)
              /\ data[i + 1] # None =>
                    out[i + 1] = "Index " \o ToString(i) \o ":" \o Listing(Entries(self, i))
        /\ nodes = <<>> => \A i \in 0 .. size - 1 : out[i + 1] = EmptyLine(i)

\* C8: print_table prints size lines, line i for bucket i in ascending
\* order: "Index i: Empty" exactly when the chain is empty, and otherwise
\* every entry of the chain once, head to tail, as "- <name>: <number>"
\* separated by single spaces; all lines are Empty on a fresh table; and the
\* call leaves the table as it was.
C8_Dump ==
    /\ []DumpLines
    /\ [][op' = "print_table" => UNCHANGED <<size, data, nodes, contacts>>]_vars

\* Witness of C8: a dump of 10 lines showing a chain of two entries.
C8_Witness ==
    /\ op = "print_table"
    /\ Len(out) = 10
    /\ out[1] = "Index 0: Empty"
    /\ out[6] = "Index 5: - May: 999-444-9999 - Amy: 111-222-3333"

====
